---------------------------- MODULE Spec2Model ----------------------------
(***************************************************************************)
(* A model of src/crypto.js: the secp256k1 engine (Crypto) and the bech32  *)
(* key codec (Bech32).                                                     *)
(*                                                                         *)
(* Scaling.  TLC has 32-bit integers, so the 256-bit curve is replaced by  *)
(* curves of the same family: y^2 = x^3 + 7 over a prime field P, P = 1    *)
(* (mod 3), whose group has prime order N < P (cofactor 1, so no point has *)
(* y = 0) and whose base point G has an even y, as secp256k1's has.  A     *)
(* scalar is ScalarLen bytes wide instead of 32.  The arithmetic, the      *)
(* point operations, the marshalling and the codec are the code's, line by *)
(* line; the codec runs on real 32- and 33-byte keys.                      *)
(***************************************************************************)
EXTENDS Integers, Sequences, FiniteSets, TLC

VARIABLES
    curve,  \* the curve parameters Crypto.P, Crypto.N, Crypto.Gx, Crypto.Gy
    call,   \* the last call of a pure operation: its name, inputs and result
    pm,     \* Crypto.pointMultiply: the loop's k, result, addend and position
    gk,     \* Crypto.generatePrivateKey: position, the last draw, the result
    sg,     \* Crypto.sign: position, inputs, nonce and result
    cd,     \* Bech32 encode/decode of a key: position, input, string, output
    app,    \* app.privateKey, app.publicKey, app.relayUrls, the last call and alert
    storage,\* localStorage's item 'nostipedia_settings'
    nostr,  \* Nostr.relays, subscriptions, eventHandlers, and the WebSockets made
    view    \* app.currentSearch, app.articles, the article1 panel, pending timers

vars == <<curve, call, pm, gk, sg, cd, app, storage, nostr, view>>

cryptoVars == <<curve, call, pm, gk, sg, cd>>

(***************************************************************************)
(* Bounds of the model.                                                    *)
(***************************************************************************)
MaxCurve == 2     \* the curves of Curves that are explored
MaxK == 34        \* pointMultiply and getPublicKey take k in 0..MaxK
MaxDigest == 8    \* sign takes a digest in 0..MaxDigest, or one around N
MaxHash == 32     \* the hash inside generateK returns a value in 0..MaxHash
MaxDraw == 32     \* the last byte of a random draw is in 0..MaxDraw, or 255
MaxModulus == 12  \* modInverse takes a modulus in 2..MaxModulus
MaxOperand == 26  \* modInverse takes a in -MaxOperand..MaxOperand
MaxLen == 4       \* convertBits takes every sequence of 0..MaxLen sample values
MaxData == 1      \* encode takes every payload of 0..MaxData sample symbols
MaxSockets == 3   \* at most MaxSockets WebSockets are made after a page load
MaxSubs == 3      \* at most MaxSubs subscriptions are made after a page load

(***************************************************************************)
(* The scalar width in bytes (32 in the code).                             *)
(***************************************************************************)
ScalarLen == 2

(***************************************************************************)
(* Crypto.P, Crypto.N, Crypto.Gx, Crypto.Gy, scaled.                       *)
(***************************************************************************)
Curves ==
    << [P |-> 13, N |-> 7,  Gx |-> 7, Gy |-> 8],
       [P |-> 43, N |-> 31, Gx |-> 2, Gy |-> 12],
       [P |-> 79, N |-> 67, Gx |-> 1, Gy |-> 18] >>

P == curve.P
N == curve.N
Gx == curve.Gx
Gy == curve.Gy

\* The point at infinity (null in the code); a finite point is <<x, y>>.
Infinity == <<>>

G == <<Gx, Gy>>

\* The curve equation, which the code never states: y^2 = x^3 + 7 over P.
OnCurve(pt) == pt # Infinity => (pt[2] * pt[2] - pt[1] * pt[1] * pt[1] - 7) % P = 0

CurvePoints ==
    {Infinity} \cup
    {pt \in (0 .. P - 1) \X (0 .. P - 1) : (pt[2] * pt[2] - pt[1] * pt[1] * pt[1] - 7) % P = 0}

(***************************************************************************)
(* Field and scalar arithmetic.                                            *)
(***************************************************************************)
\* BigInt's % : the remainder truncates toward zero and has the sign of a.
Rem(a, b) == IF a >= 0 THEN a % b ELSE -((-a) % b)

mod(a, b) ==
    LET result == Rem(a, b)
    IN  IF result >= 0 THEN result ELSE b + result

\* Mutant: the coefficient is added instead of subtracted.
RECURSIVE modInverseLoopPlus(_, _, _, _)
modInverseLoopPlus(lm, hm, low, high) ==
    IF low > 1
    THEN LET r == high \div low
             nm == hm + lm * r
             nw == high - low * r
         IN  modInverseLoopPlus(nm, lm, nw, low)
    ELSE lm

RECURSIVE modInverseLoop(_, _, _, _)
modInverseLoop(lm, hm, low, high) ==
    IF low > 1
    THEN LET r == high \div low
             nm == hm - lm * r
             nw == high - low * r
         IN  modInverseLoop(nm, lm, nw, low)
    ELSE lm

modInverse(a0, m) ==
    LET a == mod(a0, m)
    IN  IF a = 0 THEN 0
        ELSE mod(modInverseLoop(1, 0, mod(a, m), m), m)

(***************************************************************************)
(* Point operations.                                                       *)
(***************************************************************************)
\* The doubling branch's test, x1 === x2 && y1 === y2.
samePoint(x1, y1, x2, y2) == x1 = x2 /\ y1 = y2

\* Mutant: inverse points are not recognised.
sameXNever(x1, x2) == FALSE

\* The test for inverse points, x1 === x2, reached when the points differ.
sameX(x1, x2) == x1 = x2

\* Mutant: the tangent slope is taken with 2 x^2.
pointDoubleSlope2(x1, y1) ==
    LET s == mod(mod(2 * x1 * x1, P) * modInverse(2 * y1, P), P)
        x3 == mod(s * s - 2 * x1, P)
        y3 == mod(s * (x1 - x3) - y1, P)
    IN  <<x3, y3>>

pointDouble(x1, y1) ==
    LET s == mod(mod(3 * x1 * x1, P) * modInverse(2 * y1, P), P)
        x3 == mod(s * s - 2 * x1, P)
        y3 == mod(s * (x1 - x3) - y1, P)
    IN  <<x3, y3>>

\* Mutant: y1 is added instead of subtracted.
pointChordPlusY(x1, y1, x2, y2) ==
    LET s == mod(mod(y2 - y1, P) * modInverse(mod(x2 - x1, P), P), P)
        x3 == mod(s * s - x1 - x2, P)
        y3 == mod(s * (x1 - x3) + y1, P)
    IN  <<x3, y3>>

\* Mutant: the slope's denominator is x1 - x2.
pointChordSlopeSign(x1, y1, x2, y2) ==
    LET s == mod(mod(y2 - y1, P) * modInverse(mod(x1 - x2, P), P), P)
        x3 == mod(s * s - x1 - x2, P)
        y3 == mod(s * (x1 - x3) - y1, P)
    IN  <<x3, y3>>

pointChord(x1, y1, x2, y2) ==
    LET s == mod(mod(y2 - y1, P) * modInverse(mod(x2 - x1, P), P), P)
        x3 == mod(s * s - x1 - x2, P)
        y3 == mod(s * (x1 - x3) - y1, P)
    IN  <<x3, y3>>

pointAdd(p1, p2) ==
    IF p1 = Infinity THEN p2
    ELSE IF p2 = Infinity THEN p1
    ELSE LET x1 == p1[1]
             y1 == p1[2]
             x2 == p2[1]
             y2 == p2[2]
         IN  IF samePoint(x1, y1, x2, y2) THEN pointDouble(x1, y1)
             ELSE IF sameX(x1, x2) THEN Infinity
             ELSE pointChord(x1, y1, x2, y2)

\* Mutant: the addend is not doubled.
pmStepNoDouble(st) ==
    [k |-> st.k \div 2,
     result |-> IF st.k % 2 = 1 THEN pointAdd(st.result, st.addend) ELSE st.result,
     addend |-> st.addend]

\* One iteration of pointMultiply's loop, on the loop's k, result and addend.
pmStep(st) ==
    [k |-> st.k \div 2,
     result |-> IF st.k % 2 = 1 THEN pointAdd(st.result, st.addend) ELSE st.result,
     addend |-> pointAdd(st.addend, st.addend)]

RECURSIVE pmLoop(_)
pmLoop(st) == IF st.k > 0 THEN pmLoop(pmStep(st)) ELSE st.result

pointMultiply(k, p) == pmLoop([k |-> k, result |-> Infinity, addend |-> p])

(***************************************************************************)
(* Marshalling.  A string is a sequence of one-character strings, a byte   *)
(* array a sequence of numbers in 0..255.                                  *)
(***************************************************************************)
HexDigits == <<"0", "1", "2", "3", "4", "5", "6", "7",
               "8", "9", "a", "b", "c", "d", "e", "f">>

UpperDigits == <<"0", "1", "2", "3", "4", "5", "6", "7",
                 "8", "9", "A", "B", "C", "D", "E", "F">>

\* The value of a hex digit in either case, -1 for any other character.
digitValue(c) ==
    IF \E i \in 1 .. 16 : HexDigits[i] = c
    THEN (CHOOSE i \in 1 .. 16 : HexDigits[i] = c) - 1
    ELSE IF \E i \in 1 .. 16 : UpperDigits[i] = c
    THEN (CHOOSE i \in 1 .. 16 : UpperDigits[i] = c) - 1
    ELSE -1

\* Number.prototype.toString(16) and BigInt.prototype.toString(16), n >= 0.
RECURSIVE toString16(_)
toString16(n) ==
    IF n < 16 THEN <<HexDigits[n + 1]>>
    ELSE Append(toString16(n \div 16), HexDigits[(n % 16) + 1])

RECURSIVE padStart(_, _, _)
padStart(str, len, ch) ==
    IF Len(str) >= len THEN str ELSE padStart(<<ch>> \o str, len, ch)

\* parseInt(s, 16) of a string of at most two characters: the longest prefix
\* of hex digits, NaN (here -1) when there is none.
parseInt16(s) ==
    IF Len(s) = 0 \/ digitValue(s[1]) < 0 THEN -1
    ELSE IF Len(s) = 1 \/ digitValue(s[2]) < 0 THEN digitValue(s[1])
    ELSE 16 * digitValue(s[1]) + digitValue(s[2])

\* A Uint8Array element set from parseInt's result: NaN is stored as 0.
toUint8(v) == IF v < 0 THEN 0 ELSE v % 256

hexToBytes(hex0) ==
    LET hex == IF Len(hex0) % 2 = 1 THEN <<"0">> \o hex0 ELSE hex0
    IN  [i \in 1 .. (Len(hex) \div 2) |->
            toUint8(parseInt16(SubSeq(hex, 2 * i - 1, 2 * i)))]

\* bytes.map(b => b.toString(16).padStart(2, '0')).join('')
bytesToHex(bytes) ==
    [i \in 1 .. (2 * Len(bytes)) |->
        padStart(toString16(bytes[(i + 1) \div 2]), 2, "0")[((i - 1) % 2) + 1]]

\* BigInt('0x' + hex) for a string of hex digits.
RECURSIVE BigIntHex(_)
BigIntHex(hex) ==
    IF hex = <<>> THEN 0
    ELSE 16 * BigIntHex(SubSeq(hex, 1, Len(hex) - 1)) + digitValue(hex[Len(hex)])

bigIntToBytes(num, length) == hexToBytes(padStart(toString16(num), length * 2, "0"))

bytesToBigInt(bytes) == BigIntHex(bytesToHex(bytes))

(***************************************************************************)
(* Public keys.  An argument that the code takes as string or BigInt is a  *)
(* record [type |-> "string", hex |-> ...] or [type |-> "bigint",          *)
(* val |-> ...].                                                           *)
(***************************************************************************)
toBigInt(arg) == IF arg.type = "string" THEN BigIntHex(arg.hex) ELSE arg.val

\* Mutant: the parity bytes are exchanged.
parityPrefixSwapped(y) == IF y % 2 = 0 THEN 3 ELSE 2

\* The parity prefix of a compressed point.
parityPrefix(y) == IF y % 2 = 0 THEN 2 ELSE 3

encodePoint(point) ==
    IF point = Infinity THEN [i \in 1 .. (ScalarLen + 1) |-> 0]
    ELSE LET xBytes == bigIntToBytes(point[1], ScalarLen)
         IN  <<parityPrefix(point[2])>> \o xBytes

getPublicKey(privateKey) ==
    LET privBigInt == toBigInt(privateKey)
        point == pointMultiply(privBigInt, G)
    IN  bytesToHex(encodePoint(point))

(***************************************************************************)
(* Signing.  The hash is the external primitive: generateK receives its    *)
(* output as a number.                                                     *)
(***************************************************************************)
generateK(hash) ==
    LET k == mod(hash, N)
    IN  IF k = 0 THEN 1 ELSE k

\* Mutant: the nonce is not inverted.
signSNoInverse(msgHash, r, privKey, k) == mod((msgHash + r * privKey) * k, N)

\* s = k^-1 * (msgHash + r * privKey) mod N
signS(msgHash, r, privKey, k) ==
    LET kInv == modInverse(k, N)
    IN  mod((msgHash + r * privKey) * kInv, N)

\* The two rejections of sign.
invalidR(r) == r = 0

\* Mutant: a zero s is not rejected.
invalidSNever(s) == FALSE

invalidS(s) == s = 0

\* The part of sign after the nonce is known: the error thrown, or r and s
\* and the returned hex string.
signWithK(privKey, msgHash, k) ==
    LET R == pointMultiply(k, G)
        r == Rem(R[1], N)
        s == signS(msgHash, r, privKey, k)
    IN  IF R = Infinity THEN [ok |-> FALSE, error |-> "TypeError"]
        ELSE IF invalidR(r) THEN [ok |-> FALSE, error |-> "Invalid r"]
        ELSE IF invalidS(s) THEN [ok |-> FALSE, error |-> "Invalid s"]
        ELSE [ok |-> TRUE, r |-> r, s |-> s,
              sig |-> padStart(toString16(r), 2 * ScalarLen, "0")
                        \o padStart(toString16(s), 2 * ScalarLen, "0")]

(***************************************************************************)
(* Key generation.                                                         *)
(***************************************************************************)
\* Mutant: the order itself is accepted.
rejectedAboveN(key) == key > N \/ key = 0

\* The loop condition of generatePrivateKey: the draw is rejected.
rejected(key) == key >= N \/ key = 0

(***************************************************************************)
(* Bech32.  Numbers are JavaScript's: the bitwise operators work on 32-bit *)
(* two's complement integers.                                              *)
(***************************************************************************)
RECURSIVE Pow2(_)
Pow2(n) == IF n = 0 THEN 1 ELSE 2 * Pow2(n - 1)

\* a ^ b and a | b for a >= 0 or a < 0 and b >= 0: bit by bit, the sign of a
\* carried by the flooring division.
RECURSIVE BitXor(_, _)
BitXor(a, b) ==
    IF b = 0 THEN a
    ELSE IF a = 0 THEN b
    ELSE 2 * BitXor(a \div 2, b \div 2) + ((a + b) % 2)

RECURSIVE BitOr(_, _)
BitOr(a, b) ==
    IF b = 0 THEN a
    ELSE IF a = 0 THEN b
    ELSE 2 * BitOr(a \div 2, b \div 2) + (IF a % 2 = 1 \/ b % 2 = 1 THEN 1 ELSE 0)

\* a << n on a 32-bit integer, 1 <= n <= 30: the bits shifted out are lost
\* and bit 31 - n becomes the sign.
ShiftLeft32(a, n) ==
    LET low == a % Pow2(31 - n)
        top == (a \div Pow2(31 - n)) % 2
    IN  IF top = 1 THEN (low * Pow2(n) - 2147483647) - 1 ELSE low * Pow2(n)

\* a >> n, the arithmetic shift, and a & mask for a mask 2^m - 1.
ShiftRight32(a, n) == a \div Pow2(n)

AndMask(a, m) == a % Pow2(m)

charset == <<
    "q", "p", "z", "r", "y", "9", "x", "8", "g", "f", "2", "t", "v", "d", "w", "0",
    "s", "3", "j", "n", "5", "4", "k", "h", "c", "e", "6", "m", "u", "a", "7", "l" >>

\* String.prototype.charCodeAt for the digits and letters.
AsciiChars == <<
    "0", "1", "2", "3", "4", "5", "6", "7", "8", "9", "A", "B", "C", "D", "E", "F",
    "G", "H", "I", "J", "K", "L", "M", "N", "O", "P", "Q", "R", "S", "T", "U", "V",
    "W", "X", "Y", "Z", "a", "b", "c", "d", "e", "f", "g", "h", "i", "j", "k", "l",
    "m", "n", "o", "p", "q", "r", "s", "t", "u", "v", "w", "x", "y", "z" >>

AsciiCodes == <<
    48, 49, 50, 51, 52, 53, 54, 55, 56, 57, 65, 66, 67, 68, 69, 70,
    71, 72, 73, 74, 75, 76, 77, 78, 79, 80, 81, 82, 83, 84, 85, 86,
    87, 88, 89, 90, 97, 98, 99, 100, 101, 102, 103, 104, 105, 106, 107, 108,
    109, 110, 111, 112, 113, 114, 115, 116, 117, 118, 119, 120, 121, 122 >>

charCodeAt(c) == AsciiCodes[CHOOSE i \in 1 .. Len(AsciiChars) : AsciiChars[i] = c]

\* charset.indexOf(c): 0-based, -1 when absent.
charsetIndexOf(c) ==
    IF \E i \in 1 .. 32 : charset[i] = c
    THEN (CHOOSE i \in 1 .. 32 : charset[i] = c) - 1
    ELSE -1

GEN == <<996825010, 642813549, 513874426, 1027748829, 705979059>>

RECURSIVE polymodGen(_, _, _)
polymodGen(chk, top, i) ==
    IF i = 5 THEN chk
    ELSE polymodGen(IF (top \div Pow2(i)) % 2 = 1 THEN BitXor(chk, GEN[i + 1]) ELSE chk,
                    top, i + 1)

\* Mutant: the generator is never folded in.
polymodStepNoGen(chk, value) == BitXor(ShiftLeft32(AndMask(chk, 25), 5), value)

polymodStep(chk, value) ==
    LET top == ShiftRight32(chk, 25)
    IN  polymodGen(BitXor(ShiftLeft32(AndMask(chk, 25), 5), value), top, 0)

\* The for loop over values[lo .. hi], entered with the checksum chk.  (The
\* range is halved so that the evaluation stays shallow, and the test of
\* left, which is never negative, makes TLC evaluate the left half first;
\* the values are taken in order.)
RECURSIVE polymodRange(_, _, _, _)
polymodRange(chk, values, lo, hi) ==
    IF lo > hi THEN chk
    ELSE IF lo = hi THEN polymodStep(chk, values[lo])
    ELSE LET mid == (lo + hi) \div 2
             left == polymodRange(chk, values, lo, mid)
         IN  IF left < 0 THEN left ELSE polymodRange(left, values, mid + 1, hi)

polymod(values) == polymodRange(1, values, 1, Len(values))

\* Mutant: the prefix is left out of the checksum.
hrpExpandNone(hrp) == <<0>>

hrpExpand(hrp) ==
    [i \in 1 .. Len(hrp) |-> ShiftRight32(charCodeAt(hrp[i]), 5)]
        \o <<0>>
        \o [i \in 1 .. Len(hrp) |-> AndMask(charCodeAt(hrp[i]), 5)]

createChecksum(hrp, data) ==
    LET values == hrpExpand(hrp) \o data \o <<0, 0, 0, 0, 0, 0>>
        m == BitXor(polymod(values), 1)
    IN  [i \in 1 .. 6 |-> AndMask(ShiftRight32(m, 5 * (5 - (i - 1))), 5)]

encode(hrp, data) ==
    LET combined == data \o createChecksum(hrp, data)
    IN  hrp \o <<"1">> \o [i \in 1 .. Len(combined) |-> charset[combined[i] + 1]]

verifyChecksum(hrp, data) == polymod(hrpExpand(hrp) \o data) = 1

\* bechString.lastIndexOf('1'): 0-based, -1 when absent.
lastIndexOf1(str) ==
    IF \E i \in 1 .. Len(str) : str[i] = "1"
    THEN (CHOOSE i \in 1 .. Len(str) :
            str[i] = "1" /\ \A j \in (i + 1) .. Len(str) : str[j] # "1") - 1
    ELSE -1

\* Mutant: an empty prefix is accepted.
invalidStringEmptyPrefix(pos, length) == pos < 0 \/ pos + 7 > length

\* The first test of decode.
invalidString(pos, length) == pos < 1 \/ pos + 7 > length

decode(bechString) ==
    LET pos == lastIndexOf1(bechString)
        hrp == SubSeq(bechString, 1, pos)
        data == [i \in 1 .. (Len(bechString) - pos - 1) |->
                    charsetIndexOf(bechString[pos + 1 + i])]
    IN  IF invalidString(pos, Len(bechString))
        THEN [ok |-> FALSE, error |-> "Invalid bech32 string"]
        ELSE IF \E i \in 1 .. Len(data) : data[i] = -1
        THEN [ok |-> FALSE, error |-> "Invalid bech32 character"]
        ELSE IF ~verifyChecksum(hrp, data)
        THEN [ok |-> FALSE, error |-> "Invalid bech32 checksum"]
        ELSE [ok |-> TRUE, hrp |-> hrp, data |-> SubSeq(data, 1, Len(data) - 6)]

\* The accumulator after one input value.
accPush(acc, fromBits, value) == BitOr(ShiftLeft32(acc, fromBits), value)

\* Mutant: the pushed group is not masked with maxv.
RECURSIVE convertBitsEmitNoMask(_, _, _, _)
convertBitsEmitNoMask(acc, bits, toBits, ret) ==
    IF bits >= toBits
    THEN convertBitsEmitNoMask(acc, bits - toBits, toBits,
                               Append(ret, ShiftRight32(acc, bits - toBits)))
    ELSE [bits |-> bits, ret |-> ret]

\* The inner while loop: the groups pushed while bits >= toBits.
RECURSIVE convertBitsEmit(_, _, _, _)
convertBitsEmit(acc, bits, toBits, ret) ==
    IF bits >= toBits
    THEN convertBitsEmit(acc, bits - toBits, toBits,
                         Append(ret, AndMask(ShiftRight32(acc, bits - toBits), toBits)))
    ELSE [bits |-> bits, ret |-> ret]

\* One iteration of the for loop, in the state st = [ok, acc, bits, ret]; a
\* throw ends the loop.
convertBitsValue(st, value, fromBits, toBits) ==
    IF ~st.ok THEN st
    ELSE IF value < 0 \/ ShiftRight32(value, fromBits) # 0
    THEN [ok |-> FALSE, error |-> "Invalid data"]
    ELSE LET acc2 == accPush(st.acc, fromBits, value)
             e == convertBitsEmit(acc2, st.bits + fromBits, toBits, st.ret)
         IN  [ok |-> TRUE, acc |-> acc2, bits |-> e.bits, ret |-> e.ret]

\* The for loop over data[lo .. hi], the range halved as in polymodRange.
RECURSIVE convertBitsRange(_, _, _, _, _, _)
convertBitsRange(st, data, fromBits, toBits, lo, hi) ==
    IF lo > hi THEN st
    ELSE IF lo = hi THEN convertBitsValue(st, data[lo], fromBits, toBits)
    ELSE LET mid == (lo + hi) \div 2
             left == convertBitsRange(st, data, fromBits, toBits, lo, mid)
         IN  IF ~left.ok THEN left
             ELSE convertBitsRange(left, data, fromBits, toBits, mid + 1, hi)

convertBitsLoop(data, fromBits, toBits) ==
    convertBitsRange([ok |-> TRUE, acc |-> 0, bits |-> 0, ret |-> <<>>],
                     data, fromBits, toBits, 1, Len(data))

\* Mutant: the final group is not shifted into place.
lastGroupUnshifted(acc, bits, toBits) == AndMask(acc, toBits)

\* The left-over bits shifted into a final group.
lastGroup(acc, bits, toBits) == AndMask(ShiftLeft32(acc, toBits - bits), toBits)

\* Mutant: only the number of left-over bits is tested.
invalidPaddingCountOnly(acc, bits, fromBits, toBits) == bits >= fromBits

\* The test of the else branch, with pad = false.
invalidPadding(acc, bits, fromBits, toBits) ==
    bits >= fromBits \/ lastGroup(acc, bits, toBits) # 0

convertBits(data, fromBits, toBits, pad) ==
    LET l == convertBitsLoop(data, fromBits, toBits)
    IN  IF ~l.ok THEN l
        ELSE IF pad
        THEN [ok |-> TRUE,
              ret |-> IF l.bits > 0 THEN Append(l.ret, lastGroup(l.acc, l.bits, toBits))
                      ELSE l.ret]
        ELSE IF invalidPadding(l.acc, l.bits, fromBits, toBits)
        THEN [ok |-> FALSE, error |-> "Invalid padding"]
        ELSE [ok |-> TRUE, ret |-> l.ret]

\* convertBits of numbers beyond 32 bits: value i is data[i] + wraps[i] * 2^32,
\* with data[i] in 0 .. 2^31 - 1 where wraps[i] is not 0.  The test value < 0
\* reads the number; >> and | read its low 32 bits (ToInt32), which is
\* data[i].  Every throw of the loop has the same message.
convertBitsWide(data, wraps, fromBits, toBits, pad) ==
    IF \E i \in 1 .. Len(data) : wraps[i] < 0
    THEN [ok |-> FALSE, error |-> "Invalid data"]
    ELSE convertBits(data, fromBits, toBits, pad)

\* encodePubkey and encodePrivkey: the string, or the error thrown.
encodeKey(hrp, hex) ==
    LET bytes == hexToBytes(hex)
        words == convertBits(bytes, 8, 5, TRUE)
    IN  IF ~words.ok THEN words
        ELSE [ok |-> TRUE, str |-> encode(hrp, words.ret)]

encodePubkey(hex) == encodeKey(<<"n", "p", "u", "b">>, hex)

encodePrivkey(hex) == encodeKey(<<"n", "s", "e", "c">>, hex)

\* decodePubkey and decodePrivkey: the hex string, or the error thrown.
decodeKey(str) ==
    LET d == decode(str)
        bytes == convertBits(d.data, 5, 8, FALSE)
    IN  IF ~d.ok THEN d
        ELSE IF ~bytes.ok THEN bytes
        ELSE [ok |-> TRUE, hex |-> bytesToHex(bytes.ret)]

decodePubkey(npub) == decodeKey(npub)

decodePrivkey(nsec) == decodeKey(nsec)

(***************************************************************************)
(* The state machine.  The engine keeps no state of its own: the variables *)
(* are the frame of the call in progress or last returned.                 *)
(***************************************************************************)
NoCall == [op |-> "none"]

PmIdle == [pc |-> "idle", k0 |-> 0, p |-> Infinity, k |-> 0,
           result |-> Infinity, addend |-> Infinity, sum |-> <<>>]

GkIdle == [pc |-> "idle", bytes |-> <<>>, key |-> 0, draws |-> 0, ret |-> <<>>]

SgIdle == [pc |-> "idle", privateKey |-> <<>>, messageHash |-> <<>>,
           privKey |-> 0, msgHash |-> 0, k |-> 0, res |-> <<>>]

CdIdle == [pc |-> "idle", hex |-> <<>>, enc |-> <<>>, dec |-> <<>>]

\* The relay URLs of the model, standing for the four of getDefaultRelays.
RelayA == <<"w", "s", "s", ":", "/", "/", "a">>

RelayB == <<"w", "s", ":", "/", "/", "b">>

Urls == {RelayA, RelayB}

\* The app object as written: no keys, no relays, nothing shown.
AppNew == [privateKey |-> <<>>, publicKey |-> <<>>, relayUrls |-> <<>>,
           last |-> [op |-> "none", alert |-> "none"]]

NoItem == [stored |-> FALSE]

\* The Nostr object as written.  sockets are the WebSockets made so far, in
\* the order they were made; relays[url] is the number of a socket, 0 for no
\* entry; called are the subscriptions whose onEvent ran in the last step.
NostrNew == [relays |-> [u \in Urls |-> 0], subscriptions |-> {}, eventHandlers |-> <<>>,
             sockets |-> <<>>, subs |-> 0, called |-> <<>>, results |-> {}]

ViewNew == [currentSearch |-> "", articles |-> [t \in {} |-> <<>>],
            panel |-> [kind |-> "empty", of |-> ""], timers |-> {}, error |-> "none"]

Init ==
    /\ curve \in {Curves[i] : i \in 1 .. MaxCurve}
    /\ call = NoCall
    /\ pm = PmIdle
    /\ gk = GkIdle
    /\ sg = SgIdle
    /\ cd = CdIdle
    /\ app = AppNew
    /\ storage = NoItem
    /\ nostr = NostrNew
    /\ view = ViewNew

\* No call has been made yet: every behaviour makes one call of a pure
\* operation, on inputs drawn from the bounded sets.
Idle == call = NoCall /\ pm = PmIdle /\ sg = SgIdle /\ cd = CdIdle

FinitePoints == CurvePoints \ {Infinity}

\* The scalars a call is made with: the small ones and those around the order.
Scalars == (0 .. MaxK) \cup {N - 1, N, N + 1}

\* A scalar as the hex string of its ScalarLen bytes, or as a BigInt.
ScalarArgs(k) ==
    { [type |-> "string", hex |-> padStart(toString16(k), 2 * ScalarLen, "0")],
      [type |-> "bigint", val |-> k] }

----------------------------------------------------------------------------
\* Crypto.pointAdd(p1, p2)
CallPointAdd ==
    /\ Idle
    /\ \E p1 \in CurvePoints, p2 \in CurvePoints :
        /\ call' = [op |-> "pointAdd", p1 |-> p1, p2 |-> p2, ret |-> pointAdd(p1, p2)]
        /\ UNCHANGED pm
        /\ UNCHANGED <<curve, gk, sg, cd, app, storage, nostr, view>>

\* Crypto.getPublicKey(privateKey)
CallGetPublicKey ==
    /\ Idle
    /\ \E k \in Scalars : \E privateKey \in ScalarArgs(k) :
        /\ call' = [op |-> "getPublicKey", privateKey |-> privateKey,
                    ret |-> getPublicKey(privateKey)]
        /\ UNCHANGED pm
        /\ UNCHANGED <<curve, gk, sg, cd, app, storage, nostr, view>>

\* Crypto.pointMultiply(k, p): entry, one loop iteration, return.
PmStart ==
    /\ Idle
    /\ \E k \in Scalars, p \in FinitePoints :
        /\ pm' = [pc |-> "loop", k0 |-> k, p |-> p, k |-> k,
                  result |-> Infinity, addend |-> p, sum |-> <<>>]
        /\ UNCHANGED <<curve, call, gk, sg, cd, app, storage, nostr, view>>

PmIter ==
    /\ pm.pc = "loop"
    /\ pm.k > 0
    /\ LET st == pmStep(pm)
       IN  pm' = [pm EXCEPT !.k = st.k, !.result = st.result, !.addend = st.addend,
                            !.sum = IF pm.k % 2 = 1 THEN <<pm.result, pm.addend>>
                                    ELSE pm.sum]
    /\ UNCHANGED <<curve, call, gk, sg, cd, app, storage, nostr, view>>

PmReturn ==
    /\ pm.pc = "loop"
    /\ ~(pm.k > 0)
    /\ pm' = [pm EXCEPT !.pc = "returned"]
    /\ UNCHANGED <<curve, call, gk, sg, cd, app, storage, nostr, view>>

NextPoint == CallPointAdd \/ CallGetPublicKey \/ PmStart \/ PmIter \/ PmReturn

SpecPoint == Init /\ [][NextPoint]_vars

----------------------------------------------------------------------------
\* crypto.getRandomValues(bytes): the values the random source may return.
Draws ==
    { bytes \in [1 .. ScalarLen -> (0 .. MaxDraw) \cup {255}] :
        \A i \in 1 .. (ScalarLen - 1) : bytes[i] \in {0, 1, 255} }

\* Crypto.generatePrivateKey(): the first draw, a redraw, the return.
GkDraw ==
    /\ gk.pc \in {"idle", "returned"}
    /\ \E bytes \in Draws :
         gk' = [pc |-> "loop", bytes |-> bytes, key |-> bytesToBigInt(bytes),
                draws |-> 1, ret |-> <<>>]
    /\ UNCHANGED <<curve, call, pm, sg, cd, app, storage, nostr, view>>

GkRedraw ==
    /\ gk.pc = "loop"
    /\ rejected(gk.key)
    /\ \E bytes \in Draws :
         gk' = [gk EXCEPT !.bytes = bytes, !.key = bytesToBigInt(bytes),
                          !.draws = IF gk.draws < 2 THEN gk.draws + 1 ELSE 2]
    /\ UNCHANGED <<curve, call, pm, sg, cd, app, storage, nostr, view>>

GkReturn ==
    /\ gk.pc = "loop"
    /\ ~rejected(gk.key)
    /\ gk' = [gk EXCEPT !.pc = "returned",
                        !.ret = bytesToHex(bigIntToBytes(gk.key, ScalarLen))]
    /\ UNCHANGED <<curve, call, pm, sg, cd, app, storage, nostr, view>>

NextKeygen == GkDraw \/ GkRedraw \/ GkReturn

SpecKeygen == Init /\ [][NextKeygen]_vars
----------------------------------------------------------------------------
\* A digest as hex string or as byte array.
DigestArgs(z) ==
    { [type |-> "string", hex |-> padStart(toString16(z), 2 * ScalarLen, "0")],
      [type |-> "bytes", bytes |-> bigIntToBytes(z, ScalarLen)] }

Digests == (0 .. MaxDigest) \cup {N - 1, N, N + 1}

\* Crypto.sign(privateKey, messageHash) up to the await of generateK.
SgStart ==
    /\ Idle
    /\ \E d \in 1 .. (N - 1), z \in Digests :
       \E privateKey \in ScalarArgs(d), messageHash \in DigestArgs(z) :
         /\ (privateKey.type = "string") = (messageHash.type = "string")
         /\ sg' = [pc |-> "awaitK",
                   privateKey |-> privateKey,
                   messageHash |-> messageHash,
                   privKey |-> toBigInt(privateKey),
                   msgHash |-> IF messageHash.type = "string"
                               THEN BigIntHex(messageHash.hex)
                               ELSE bytesToBigInt(messageHash.bytes),
                   k |-> 0, res |-> <<>>]
    /\ UNCHANGED <<curve, call, pm, gk, cd, app, storage, nostr, view>>

\* generateK resolves with the nonce of some hash value, and sign runs to
\* its return or its throw.
SgResume ==
    /\ sg.pc = "awaitK"
    /\ \E hash \in 0 .. MaxHash :
         LET k == generateK(hash)
             res == signWithK(sg.privKey, sg.msgHash, k)
         IN  sg' = [sg EXCEPT !.pc = IF res.ok THEN "returned" ELSE "threw",
                              !.k = k, !.res = res]
    /\ UNCHANGED <<curve, call, pm, gk, cd, app, storage, nostr, view>>

NextSign == SgStart \/ SgResume

SpecSign == Init /\ [][NextSign]_vars
----------------------------------------------------------------------------
(***************************************************************************)
(* The keys the codec is run on: secp256k1's own parameters as written in  *)
(* the code (upper case), the same in lower case as toString(16) gives     *)
(* them, the all-zero and all-one keys, and Gx with any one byte replaced; *)
(* each also behind the prefix byte of a compressed point.                 *)
(***************************************************************************)
SecpP == <<
    "F", "F", "F", "F", "F", "F", "F", "F", "F", "F", "F", "F", "F", "F", "F", "F",
    "F", "F", "F", "F", "F", "F", "F", "F", "F", "F", "F", "F", "F", "F", "F", "F",
    "F", "F", "F", "F", "F", "F", "F", "F", "F", "F", "F", "F", "F", "F", "F", "F",
    "F", "F", "F", "F", "F", "F", "F", "E", "F", "F", "F", "F", "F", "C", "2", "F" >>

SecpN == <<
    "F", "F", "F", "F", "F", "F", "F", "F", "F", "F", "F", "F", "F", "F", "F", "F",
    "F", "F", "F", "F", "F", "F", "F", "F", "F", "F", "F", "F", "F", "F", "F", "E",
    "B", "A", "A", "E", "D", "C", "E", "6", "A", "F", "4", "8", "A", "0", "3", "B",
    "B", "F", "D", "2", "5", "E", "8", "C", "D", "0", "3", "6", "4", "1", "4", "1" >>

SecpGx == <<
    "7", "9", "B", "E", "6", "6", "7", "E", "F", "9", "D", "C", "B", "B", "A", "C",
    "5", "5", "A", "0", "6", "2", "9", "5", "C", "E", "8", "7", "0", "B", "0", "7",
    "0", "2", "9", "B", "F", "C", "D", "B", "2", "D", "C", "E", "2", "8", "D", "9",
    "5", "9", "F", "2", "8", "1", "5", "B", "1", "6", "F", "8", "1", "7", "9", "8" >>

SecpGy == <<
    "4", "8", "3", "A", "D", "A", "7", "7", "2", "6", "A", "3", "C", "4", "6", "5",
    "5", "D", "A", "4", "F", "B", "F", "C", "0", "E", "1", "1", "0", "8", "A", "8",
    "F", "D", "1", "7", "B", "4", "4", "8", "A", "6", "8", "5", "5", "4", "1", "9",
    "9", "C", "4", "7", "D", "0", "8", "F", "F", "B", "1", "0", "D", "4", "B", "8" >>

Lower(str) ==
    [i \in 1 .. Len(str) |->
        IF digitValue(str[i]) >= 0 THEN HexDigits[digitValue(str[i]) + 1] ELSE str[i]]

\* hex with byte number i (from 1) replaced by the byte b.
WithByte(hex, i, b) ==
    [j \in 1 .. Len(hex) |->
        IF j = 2 * i - 1 THEN HexDigits[(b \div 16) + 1]
        ELSE IF j = 2 * i THEN HexDigits[(b % 16) + 1]
        ELSE hex[j]]

VaryBytes == {0, 165, 255}

LowerBases ==
    {Lower(SecpP), Lower(SecpN), Lower(SecpGx), Lower(SecpGy),
     [i \in 1 .. 64 |-> "0"], [i \in 1 .. 64 |-> "f"]}

LowerKeys32 ==
    LowerBases
    \cup {WithByte(Lower(SecpGx), i, b) : i \in 1 .. 32, b \in VaryBytes}

UpperKeys32 == {SecpP, SecpN, SecpGx, SecpGy}

Compressed(keys) == {<<"0", "2">> \o k : k \in keys} \cup {<<"0", "3">> \o k : k \in keys}

KeyInputs ==
    LowerKeys32 \cup Compressed(LowerBases) \cup UpperKeys32 \cup Compressed(UpperKeys32)

\* Strings that are not the hex of a key: an odd number of characters, or a
\* character that is no hex digit.
MalformedInputs ==
    {<<"a", "b", "c">>, <<"z", "z">>, <<"1", "z">>, <<"0", "x", "f", "f">>,
     SubSeq(Lower(SecpGx), 1, 63),
     [Lower(SecpGx) EXCEPT ![1] = "g"],
     [Lower(SecpGx) EXCEPT ![64] = "g"]}

\* Bech32.encodePubkey(hex) and Bech32.encodePrivkey(hex)
CdEncodePubkey ==
    /\ Idle
    /\ \E hex \in KeyInputs \cup MalformedInputs :
         cd' = [pc |-> "encodedPub", hex |-> hex, enc |-> encodePubkey(hex), dec |-> <<>>]
    /\ UNCHANGED <<curve, call, pm, gk, sg, app, storage, nostr, view>>

CdEncodePrivkey ==
    /\ Idle
    /\ \E hex \in KeyInputs \cup MalformedInputs :
         cd' = [pc |-> "encodedPriv", hex |-> hex, enc |-> encodePrivkey(hex), dec |-> <<>>]
    /\ UNCHANGED <<curve, call, pm, gk, sg, app, storage, nostr, view>>

\* Bech32.decodePubkey and Bech32.decodePrivkey of the string just encoded,
\* by the encoder of the same key type ("decoded...") or of the other one
\* ("cross...").
CdDecodePubkey ==
    /\ cd.pc \in {"encodedPub", "encodedPriv"}
    /\ cd.enc.ok
    /\ cd' = [cd EXCEPT !.pc = IF cd.pc = "encodedPub" THEN "decodedPub" ELSE "crossPub",
                        !.dec = decodePubkey(cd.enc.str)]
    /\ UNCHANGED <<curve, call, pm, gk, sg, app, storage, nostr, view>>

CdDecodePrivkey ==
    /\ cd.pc \in {"encodedPub", "encodedPriv"}
    /\ cd.enc.ok
    /\ cd' = [cd EXCEPT !.pc = IF cd.pc = "encodedPriv" THEN "decodedPriv" ELSE "crossPriv",
                        !.dec = decodePrivkey(cd.enc.str)]
    /\ UNCHANGED <<curve, call, pm, gk, sg, app, storage, nostr, view>>

NextCodec == CdEncodePubkey \/ CdEncodePrivkey \/ CdDecodePubkey \/ CdDecodePrivkey

\* The codec does not read the curve.
InitCodec == Init /\ curve = Curves[1]

SpecCodec == InitCodec /\ [][NextCodec]_vars

----------------------------------------------------------------------------
\* Crypto.modInverse(a, m)
CallModInverse ==
    /\ Idle
    /\ \E a \in (-MaxOperand) .. MaxOperand, m \in 2 .. MaxModulus :
         call' = [op |-> "modInverse", a |-> a, m |-> m, ret |-> modInverse(a, m)]
    /\ UNCHANGED <<curve, pm, gk, sg, cd, app, storage, nostr, view>>

NextArith == CallModInverse

\* The arithmetic takes its modulus as argument and does not read the curve.
SpecArith == InitCodec /\ [][NextArith]_vars

----------------------------------------------------------------------------
\* Bech32.convertBits(data, fromBits, toBits, pad)
Widths == {5, 8}

\* Values of a group of the given width: both ends, a value whose low bits
\* are zero, and the first value that is out of range.
SampleValues(width) == IF width = 5 THEN {0, 1, 16, 31, 32} ELSE {0, 1, 128, 255, 256}

ShortData(width) == UNION {[1 .. n -> SampleValues(width)] : n \in 0 .. MaxLen}

\* The bytes of the keys, 32 and 33 of them.
KeyBytes == {hexToBytes(h) : h \in KeyInputs}

LongData(width) ==
    IF width = 8 THEN KeyBytes ELSE {convertBits(b, 8, 5, TRUE).ret : b \in KeyBytes}

\* The multiples of 2^32 added to the values of a sequence of n values: none,
\* and for one or two values each of -1, 0, 1.
NoWraps(n) == [i \in 1 .. n |-> 0]

Wraps(n) == IF n \in 1 .. 2 THEN [1 .. n -> {-1, 0, 1}] ELSE {NoWraps(n)}

CallConvertBits ==
    /\ Idle
    /\ \E fromBits \in Widths, toBits \in Widths, pad \in BOOLEAN :
         \E data \in ShortData(fromBits) \cup LongData(fromBits) :
           \E wraps \in Wraps(Len(data)) :
             call' = [op |-> "convertBits", data |-> data, wraps |-> wraps,
                      fromBits |-> fromBits, toBits |-> toBits, pad |-> pad,
                      bytes |-> <<>>,
                      ret |-> convertBitsWide(data, wraps, fromBits, toBits, pad)]
    /\ UNCHANGED <<curve, pm, gk, sg, cd, app, storage, nostr, view>>

\* The groups of convertBits(bytes, 8, 5, true) are converted back, as
\* decodePubkey does with the groups that encodePubkey wrote.
CallConvertBack ==
    /\ call.op = "convertBits"
    /\ call.fromBits = 8 /\ call.toBits = 5 /\ call.pad
    /\ call.wraps = NoWraps(Len(call.data))
    /\ call.ret.ok
    /\ call' = [op |-> "convertBack", data |-> call.ret.ret,
                wraps |-> NoWraps(Len(call.ret.ret)), fromBits |-> 5,
                toBits |-> 8, pad |-> FALSE, bytes |-> call.data,
                ret |-> convertBits(call.ret.ret, 5, 8, FALSE)]
    /\ UNCHANGED <<curve, pm, gk, sg, cd, app, storage, nostr, view>>

NextBits == CallConvertBits \/ CallConvertBack

SpecBits == InitCodec /\ [][NextBits]_vars

----------------------------------------------------------------------------
\* Bech32.encode(hrp, data) and Bech32.decode(bechString).  cd holds the
\* encoded string, the one edit made to it before it is decoded, and the
\* result of decode.
Npub == <<"n", "p", "u", "b">>

Nsec == <<"n", "s", "e", "c">>

Hrps == {Npub, Nsec, <<>>}

SampleSymbols == {0, 31}

\* Short payloads, and the payloads of a 32-byte and of a 33-byte key.
Payloads ==
    UNION {[1 .. n -> SampleSymbols] : n \in 0 .. MaxData}
        \cup {convertBits(hexToBytes(h), 8, 5, TRUE).ret :
                h \in {Lower(SecpGx), <<"0", "2">> \o Lower(SecpGx)}}

BsEncode ==
    /\ Idle
    /\ \E hrp \in Hrps, data \in Payloads :
         cd' = [pc |-> "bech", hrp |-> hrp, data |-> data, str |-> encode(hrp, data),
                edit |-> "none", dec |-> <<>>]
    /\ UNCHANGED <<curve, call, pm, gk, sg, app, storage, nostr, view>>

\* The characters one character is replaced by: every symbol of the alphabet
\* and characters outside it in a short string, a few of each in a key.
Foreign == {"1", "b", "i", "o", "B", "Q"}

Replacements(str) ==
    IF Len(str) <= 5 + MaxData + 6
    THEN {charset[i] : i \in 1 .. 32} \cup Foreign
    ELSE {"q", "l", "5", "1", "B"}

EditKind(hrp, i, c) ==
    IF i <= Len(hrp) THEN "prefix"
    ELSE IF i = Len(hrp) + 1 THEN "separator"
    ELSE IF charsetIndexOf(c) >= 0 THEN "symbol"
    ELSE "foreign"

BsReplace ==
    /\ cd.pc = "bech" /\ cd.edit = "none"
    /\ \E i \in 1 .. Len(cd.str), c \in Replacements(cd.str) :
         /\ c # cd.str[i]
         /\ cd' = [cd EXCEPT !.str = [cd.str EXCEPT ![i] = c],
                             !.edit = EditKind(cd.hrp, i, c)]
    /\ UNCHANGED <<curve, call, pm, gk, sg, app, storage, nostr, view>>

BsSwapPrefix ==
    /\ cd.pc = "bech" /\ cd.edit = "none"
    /\ cd.hrp \in {Npub, Nsec}
    /\ cd' = [cd EXCEPT !.str = (IF cd.hrp = Npub THEN Nsec ELSE Npub)
                                    \o SubSeq(cd.str, 5, Len(cd.str)),
                        !.edit = "swap"]
    /\ UNCHANGED <<curve, call, pm, gk, sg, app, storage, nostr, view>>

\* Characters are cut off at the front or at the end.
BsCut ==
    /\ cd.pc = "bech" /\ cd.edit = "none"
    /\ \/ \E k \in 1 .. Len(cd.hrp) :
            cd' = [cd EXCEPT !.str = SubSeq(cd.str, k + 1, Len(cd.str)), !.edit = "cut"]
       \/ \E k \in 1 .. 7 :
            cd' = [cd EXCEPT !.str = SubSeq(cd.str, 1, Len(cd.str) - k), !.edit = "cut"]
    /\ UNCHANGED <<curve, call, pm, gk, sg, app, storage, nostr, view>>

BsDecode ==
    /\ cd.pc = "bech"
    /\ cd' = [cd EXCEPT !.pc = "decoded", !.dec = decode(cd.str)]
    /\ UNCHANGED <<curve, call, pm, gk, sg, app, storage, nostr, view>>

NextBech == BsEncode \/ BsReplace \/ BsSwapPrefix \/ BsCut \/ BsDecode

SpecBech == InitCodec /\ [][NextBech]_vars

----------------------------------------------------------------------------
(***************************************************************************)
(* Nostr (src/nostr.js).  The operations take the Nostr object n and       *)
(* return it as the call leaves it.                                        *)
(***************************************************************************)
NewSocket(url) == [url |-> url, readyState |-> "CONNECTING", sent |-> {}]

\* this.relays[url]?.readyState === WebSocket.OPEN, for the entry i.
isOpen(n, i) == i # 0 /\ n.sockets[i].readyState = "OPEN"

connectRelay(n, url) ==
    IF isOpen(n, n.relays[url]) THEN n
    ELSE [n EXCEPT !.sockets = Append(@, NewSocket(url))]

RECURSIVE connect(_, _)
connect(n, relayUrls) ==
    IF relayUrls = <<>> THEN n
    ELSE connect(connectRelay(n, Head(relayUrls)), Tail(relayUrls))

\* ws.onopen of socket i.
onopen(n, i) ==
    [n EXCEPT !.sockets[i].readyState = "OPEN", !.relays[n.sockets[i].url] = i]

\* ws.onclose of socket i.  (What a closed socket had sent is dropped.)
onclose(n, i) ==
    [n EXCEPT !.sockets[i].readyState = "CLOSED", !.sockets[i].sent = {},
              !.relays[n.sockets[i].url] = 0]

\* The sockets of Object.values(this.relays) that are open.
inRelaysOpen(n, i) == \E u \in Urls : n.relays[u] = i /\ isOpen(n, i)

\* ws.send(msg) on every open socket of this.relays.
sendAll(n, msg) ==
    [n EXCEPT !.sockets = [i \in DOMAIN n.sockets |->
        IF inRelaysOpen(n, i)
        THEN [n.sockets[i] EXCEPT !.sent = @ \cup {msg}]
        ELSE n.sockets[i]]]

\* subscribe: Date.now() and Math.random() make a new id each time.
subscribe(n, filters, onEvent) ==
    LET subId == n.subs + 1
        added == [n EXCEPT !.subs = subId,
                           !.subscriptions = @ \cup {subId},
                           !.eventHandlers = Append(@, [subId |-> subId,
                                                        filters |-> filters,
                                                        onEvent |-> onEvent])]
    IN  sendAll(added, [type |-> "REQ", subId |-> subId])

unsubscribe(n, subId) ==
    sendAll([n EXCEPT !.subscriptions = @ \ {subId}], [type |-> "CLOSE", subId |-> subId])

\* An event has its id, its d tag (the title, "" for none), its created_at
\* and its t tags; a filter has #d and #t, "*" for a key it does not have.
\* Every event and every filter of the app has the kind 30818.
matchesFilters(event, filters) ==
    /\ filters.d # "*" => event.d = filters.d
    /\ filters.t # "*" => filters.t \in event.t

\* publish: the URLs an EVENT was sent to.
publish(n) ==
    [sendAll(n, [type |-> "EVENT", subId |-> 0])
        EXCEPT !.results = {u \in Urls : isOpen(n, n.relays[u])}]

getConnectedRelays(n) == {u \in Urls : isOpen(n, n.relays[u])}

disconnect(n) ==
    [n EXCEPT !.sockets = [i \in DOMAIN n.sockets |->
                             IF inRelaysOpen(n, i)
                             THEN [n.sockets[i] EXCEPT !.readyState = "CLOSING"]
                             ELSE n.sockets[i]],
              !.relays = [u \in Urls |-> 0],
              !.subscriptions = {},
              !.eventHandlers = <<>>]

(***************************************************************************)
(* The views of the app (src/app.js).  The operations take the view v (and *)
(* the Nostr object n where they subscribe) and return it as they leave    *)
(* it.  A version of an article keeps the event's id, created_at and t     *)
(* tags; the panel keeps which rendering it shows and of what.             *)
(***************************************************************************)
Panel(kind, of) == [kind |-> kind, of |-> of]

showLoading(v) == [v EXCEPT !.panel = Panel("loading", "")]

renderHomepage(v) == [v EXCEPT !.panel = Panel("home", "")]

\* The place of a in a list sorted newest first: after every version that is
\* as new or newer (Array.prototype.sort is stable and a was pushed last).
RECURSIVE insertByCreated(_, _)
insertByCreated(list, a) ==
    IF list = <<>> THEN <<a>>
    ELSE IF Head(list).created >= a.created
    THEN <<Head(list)>> \o insertByCreated(Tail(list), a)
    ELSE <<a>> \o list

\* Mutant: the list is left in the order of arrival.
sortUnsorted(list) == list

\* articles[title].sort((a, b) => b.created - a.created)
RECURSIVE sortNewestFirst(_)
sortNewestFirst(list) ==
    IF list = <<>> THEN <<>>
    ELSE insertByCreated(sortNewestFirst(SubSeq(list, 1, Len(list) - 1)), list[Len(list)])

\* this.articles[title].some(a => a.id === event.id)
exists(list, id) == \E i \in 1 .. Len(list) : list[i].id = id

\* this.articles with the key title set to list.
withArticle(articles, title, list) ==
    [t \in DOMAIN articles \cup {title} |-> IF t = title THEN list ELSE articles[t]]

processArticle(v, event) ==
    LET title == event.d
        old == IF title \in DOMAIN v.articles THEN v.articles[title] ELSE <<>>
        articleData == [id |-> event.id, created |-> event.created_at,
                        categories |-> event.t]
    IN  IF title = "" THEN v
        ELSE IF exists(old, event.id)
        THEN v
        ELSE [v EXCEPT !.articles =
                 withArticle(v.articles, title, sortNewestFirst(Append(old, articleData)))]

displayArticle(v, title) ==
    IF title \notin DOMAIN v.articles \/ v.articles[title] = <<>>
    THEN [v EXCEPT !.panel = Panel("notfound", title)]
    ELSE [v EXCEPT !.panel = Panel("article", title)]

\* versions[0].categories of an empty list is a TypeError, which leaves the
\* panel as it was.
displayCategoryResults(v, category) ==
    IF \E t \in DOMAIN v.articles : v.articles[t] = <<>>
    THEN [v EXCEPT !.error = "TypeError"]
    ELSE IF \E t \in DOMAIN v.articles : category \in v.articles[t][1].categories
    THEN [v EXCEPT !.panel = Panel("category", category)]
    ELSE [v EXCEPT !.panel = Panel("nocategory", category)]

CategorySearch(category) == "category:" \o category

\* The callback given to Nostr.subscribe, run on an event that matches.
onEvent(v, cb, event) ==
    IF cb.kind = "search"
    THEN LET p == processArticle(v, event)
         IN  IF p.currentSearch = cb.of THEN displayArticle(p, cb.of) ELSE p
    ELSE IF cb.kind = "category" THEN processArticle(v, event)
    ELSE IF cb.kind = "home" THEN renderHomepage(processArticle(v, event))
    ELSE v

\* handleMessage of ['EVENT', subId, event]: every handler in turn, whatever
\* the subId.  The result is the view and the subscriptions whose onEvent ran.
RECURSIVE handleEvent(_, _, _, _)
handleEvent(handlers, v, called, event) ==
    IF handlers = <<>> THEN [view |-> v, called |-> called]
    ELSE LET h == Head(handlers)
         IN  IF matchesFilters(event, h.filters)
             THEN handleEvent(Tail(handlers), onEvent(v, h.onEvent, event),
                              Append(called, h.subId), event)
             ELSE handleEvent(Tail(handlers), v, called, event)

Callback(kind, of) == [kind |-> kind, of |-> of]

Filter(d, t) == [d |-> d, t |-> t]

----------------------------------------------------------------------------
(***************************************************************************)
(* Settings (src/app.js).                                                  *)
(***************************************************************************)
getDefaultRelays == <<RelayA, RelayB>>

startsWith(str, prefix) ==
    Len(str) >= Len(prefix) /\ SubSeq(str, 1, Len(prefix)) = prefix

\* relayText.split('\n').map(trim).filter(startsWith 'wss://' or 'ws://')
isRelayUrl(r) ==
    startsWith(r, <<"w", "s", "s", ":", "/", "/">>) \/ startsWith(r, <<"w", "s", ":", "/", "/">>)

\* BigInt('0x' + privateKey) throws a SyntaxError for a string that is not hex.
BigIntSyntaxError(str) == str = <<>> \/ \E i \in 1 .. Len(str) : digitValue(str[i]) < 0

loadSettings(a, stored) ==
    IF stored.stored
    THEN [a EXCEPT !.privateKey = stored.privateKey,
                   !.publicKey = stored.publicKey,
                   !.relayUrls = stored.relays]
    ELSE [a EXCEPT !.relayUrls = getDefaultRelays]

Last(op, alert) == [op |-> op, alert |-> alert]

\* this.privateKey = hex; this.publicKey = Crypto.getPublicKey(hex): the keys
\* as the try block leaves them, and whether it threw.  privateKey is
\* assigned before getPublicKey reads it.
setKey(a, hex) ==
    IF BigIntSyntaxError(hex)
    THEN [threw |-> TRUE, app |-> [a EXCEPT !.privateKey = hex]]
    ELSE [threw |-> FALSE,
          app |-> [a EXCEPT !.privateKey = hex,
                            !.publicKey = getPublicKey([type |-> "string", hex |-> hex])]]

\* The try block with d the result of Bech32.decodePrivkey: an nsec string
\* is decoded before anything is assigned.
setDecodedKey(a, d) == IF ~d.ok THEN [threw |-> TRUE, app |-> a] ELSE setKey(a, d.hex)

\* if (privKeyInput) { try { ... } catch { ... } }
saveKey(a, privKeyInput) ==
    IF privKeyInput = <<>> THEN [threw |-> FALSE, app |-> a]
    ELSE IF startsWith(privKeyInput, Nsec \o <<"1">>)
    THEN setDecodedKey(a, decodePrivkey(privKeyInput))
    ELSE setKey(a, privKeyInput)

\* saveSettings() after the try block, k its result: the alert of the catch,
\* or the relay list is assigned and then tested, stored and connected to.
saveRelays(k, stored, n, relayUrls) ==
    IF k.threw
    THEN [app |-> [k.app EXCEPT !.last = Last("saveSettings", "Invalid private key format")],
          storage |-> stored, nostr |-> n]
    ELSE IF relayUrls = <<>>
    THEN [app |-> [k.app EXCEPT !.relayUrls = relayUrls,
                                !.last = Last("saveSettings",
                                              "Please add at least one relay URL")],
          storage |-> stored, nostr |-> n]
    ELSE [app |-> [k.app EXCEPT !.relayUrls = relayUrls,
                                !.last = Last("saveSettings", "Settings saved!")],
          storage |-> [stored |-> TRUE, privateKey |-> k.app.privateKey,
                       publicKey |-> k.app.publicKey, relays |-> relayUrls],
          nostr |-> connect(disconnect(n), relayUrls)]

\* saveSettings(): the app, the stored item and the Nostr object after it.
saveSettings(a, stored, n, privKeyInput, relayLines) ==
    saveRelays(saveKey(a, privKeyInput), stored, n, SelectSeq(relayLines, isRelayUrl))

\* loadHomepage(), and search() and searchCategory(): the view and the Nostr
\* object after them.
loadHomepage(v, n) ==
    [view |-> renderHomepage(v),
     nostr |-> subscribe(n, Filter("*", "*"), Callback("home", ""))]

search(v, n, query) ==
    [view |-> [showLoading(v) EXCEPT
                 !.currentSearch = query,
                 !.articles = withArticle(v.articles, query, <<>>),
                 !.timers = @ \cup {Callback("search", query)}],
     nostr |-> subscribe(n, Filter(query, "*"), Callback("search", query))]

searchCategory(v, n, category) ==
    [view |-> [showLoading(v) EXCEPT
                 !.currentSearch = CategorySearch(category),
                 !.timers = @ \cup {Callback("category", category)}],
     nostr |-> subscribe(n, Filter("*", category), Callback("category", category))]

----------------------------------------------------------------------------
(***************************************************************************)
(* The app and its relays as a state machine.                              *)
(***************************************************************************)
\* called and results describe the last step only.
Quiet(n) == [n EXCEPT !.called = <<>>, !.results = {}]

\* The page is loaded: a new app, Nostr and view, and app.init().
AppInit ==
    LET a == loadSettings(AppNew, storage)
        h == loadHomepage(ViewNew, connect(NostrNew, a.relayUrls))
    IN  /\ app' = [a EXCEPT !.last = Last("init", "none")]
        /\ nostr' = h.nostr
        /\ view' = h.view
        /\ UNCHANGED <<cryptoVars, storage>>

HexOf(k) == bytesToHex(bigIntToBytes(k, ScalarLen))

\* generateKey(): generatePrivateKey returns a key in [1, N-1].
GenerateKey ==
    /\ app.last.op # "none"
    /\ \E k \in {1, N - 1} :
         app' = [app EXCEPT !.privateKey = HexOf(k),
                            !.publicKey = getPublicKey([type |-> "string", hex |-> HexOf(k)]),
                            !.last = Last("generateKey", "New key pair generated!")]
    /\ UNCHANGED <<cryptoVars, storage, nostr, view>>

\* The app, the stored item and the Nostr object become those of s.
Saved(s) ==
    /\ Len(s.nostr.sockets) <= MaxSockets
    /\ app' = s.app
    /\ storage' = s.storage
    /\ nostr' = s.nostr

SaveSettings(keyTexts, relayTexts) ==
    /\ app.last.op # "none"
    /\ \E privKeyInput \in keyTexts, relayLines \in relayTexts :
         Saved(saveSettings(app, storage, Quiet(nostr), privKeyInput, relayLines))
    /\ UNCHANGED <<cryptoVars, view>>

\* What is typed as private key: nothing, a key in hex, text that is no hex,
\* an nsec string, and an nsec string with its last character replaced.
KeyTexts ==
    LET nsec == encodePrivkey(HexOf(3)).str
    IN  {<<>>, HexOf(2), <<"k", "e", "y">>, nsec,
         [nsec EXCEPT ![Len(nsec)] = IF nsec[Len(nsec)] = "q" THEN "p" ELSE "q"]}

SocketIds == 1 .. Len(nostr.sockets)

\* The connection of socket i is made.
SocketOpen ==
    /\ \E i \in SocketIds :
         /\ nostr.sockets[i].readyState = "CONNECTING"
         /\ nostr' = onopen(Quiet(nostr), i)
    /\ UNCHANGED <<cryptoVars, app, storage, view>>

\* Socket i is closed: the connection failed, the relay closed it, or the
\* close() of disconnect is complete.
SocketClose ==
    /\ \E i \in SocketIds :
         /\ nostr.sockets[i].readyState \in {"CONNECTING", "OPEN", "CLOSING"}
         /\ nostr' = onclose(Quiet(nostr), i)
    /\ UNCHANGED <<cryptoVars, app, storage, view>>

\* Nostr.subscribe of a caller other than the views.
Subscribe ==
    /\ app.last.op # "none"
    /\ nostr.subs < MaxSubs
    /\ nostr' = subscribe(Quiet(nostr), Filter("T1", "*"), Callback("user", ""))
    /\ UNCHANGED <<cryptoVars, app, storage, view>>

Unsubscribe ==
    /\ \E subId \in nostr.subscriptions :
         nostr' = unsubscribe(Quiet(nostr), subId)
    /\ UNCHANGED <<cryptoVars, app, storage, view>>

Publish ==
    /\ app.last.op # "none"
    /\ nostr' = publish(Quiet(nostr))
    /\ UNCHANGED <<cryptoVars, app, storage, view>>

Titles == {"T1", "T2"}

Categories == {"c1"}

Event(id, d, created_at, t) == [id |-> id, d |-> d, created_at |-> created_at, t |-> t]

\* The events the relays hold: two titles, an older and two newer versions
\* of the first (the newer ones of the same second), and one without d tag.
Events ==
    {Event(1, "T1", 1, {}), Event(2, "T1", 2, {"c1"}), Event(3, "T2", 1, {"c1"}),
     Event(4, "T1", 2, {}), Event(5, "", 3, {"c1"})}

\* ws.onmessage of an open socket with ['EVENT', subId, event].
RelayEvent(events) ==
    /\ \E i \in SocketIds : nostr.sockets[i].readyState = "OPEN"
    /\ \E event \in events :
         LET r == handleEvent(nostr.eventHandlers, view, <<>>, event)
         IN  /\ view' = r.view
             /\ nostr' = [Quiet(nostr) EXCEPT !.called = r.called]
    /\ UNCHANGED <<cryptoVars, app, storage>>

Search ==
    /\ app.last.op # "none"
    /\ nostr.subs < MaxSubs
    /\ \E query \in Titles :
         LET s == search(view, Quiet(nostr), query)
         IN  view' = s.view /\ nostr' = s.nostr
    /\ UNCHANGED <<cryptoVars, app, storage>>

SearchCategory ==
    /\ app.last.op # "none"
    /\ nostr.subs < MaxSubs
    /\ \E category \in Categories :
         LET s == searchCategory(view, Quiet(nostr), category)
         IN  view' = s.view /\ nostr' = s.nostr
    /\ UNCHANGED <<cryptoVars, app, storage>>

ShowHome ==
    /\ app.last.op # "none"
    /\ nostr.subs < MaxSubs
    /\ LET s == loadHomepage([view EXCEPT !.currentSearch = ""], Quiet(nostr))
       IN  view' = s.view /\ nostr' = s.nostr
    /\ UNCHANGED <<cryptoVars, app, storage>>

\* A setTimeout callback of search() or searchCategory() runs.
TimerFires ==
    /\ \E timer \in view.timers :
         LET v == [view EXCEPT !.timers = @ \ {timer}, !.error = "none"]
         IN  view' = IF timer.kind = "category" THEN displayCategoryResults(v, timer.of)
                     ELSE IF v.currentSearch = timer.of THEN displayArticle(v, timer.of)
                     ELSE v
    /\ nostr' = Quiet(nostr)
    /\ UNCHANGED <<cryptoVars, app, storage>>

InitApp == Init /\ curve = Curves[1]

NextSettings == AppInit \/ GenerateKey \/ SaveSettings(KeyTexts, {<<>>, <<RelayA>>})

SpecSettings == InitApp /\ [][NextSettings]_vars

NextNostr ==
    \/ AppInit
    \/ SaveSettings({<<>>}, {<<RelayA>>})
    \/ SocketOpen
    \/ SocketClose
    \/ Subscribe
    \/ Unsubscribe
    \/ RelayEvent({Event(1, "T1", 1, {})})
    \/ Publish

SpecNostr == InitApp /\ [][NextNostr]_vars

\* A connection that is being made does not stay so for ever: its onopen
\* fires unless it has failed.
SpecNostrLive == SpecNostr /\ WF_vars(SocketOpen)

NextView ==
    \/ AppInit
    \/ SocketOpen
    \/ Search
    \/ SearchCategory
    \/ ShowHome
    \/ TimerFires
    \/ RelayEvent(Events)

SpecView == InitApp /\ [][NextView]_vars

(***************************************************************************)
(* Reference definitions the claims are stated with.                       *)
(***************************************************************************)
\* The sum of k copies of p by repeated pointAdd from the point at infinity.
RECURSIVE RepeatedAdd(_, _)
RepeatedAdd(k, p) == IF k = 0 THEN Infinity ELSE pointAdd(RepeatedAdd(k - 1, p), p)

\* The big-endian value of a byte sequence.
RECURSIVE BigEndian(_)
BigEndian(bytes) ==
    IF bytes = <<>> THEN 0
    ELSE 256 * BigEndian(SubSeq(bytes, 1, Len(bytes) - 1)) + bytes[Len(bytes)]

\* The two lower-case hex digits of a byte.
ByteHex(b) == <<HexDigits[(b \div 16) + 1], HexDigits[(b % 16) + 1]>>

\* a and b are congruent modulo m.
Congruent(a, b, m) == (a - b) % m = 0

InversePoints(a, b) ==
    /\ a # Infinity
    /\ b # Infinity
    /\ a[1] = b[1]
    /\ a[2] # b[2]
    /\ Congruent(a[2] + b[2], 0, P)

----------------------------------------------------------------------------
\* C1: generatePrivateKey returns only after a draw whose big-endian value
\* lies in [1, N-1], and the key it returns is that value as hex; a draw
\* equal to 0 or >= N is never returned.
C1_KeyInRange ==
    gk.pc = "returned" =>
        /\ BigEndian(gk.bytes) \in 1 .. (N - 1)
        /\ Len(gk.ret) = 2 * ScalarLen
        /\ \A i \in 1 .. ScalarLen :
             SubSeq(gk.ret, 2 * i - 1, 2 * i) = ByteHex(gk.bytes[i])

\* A key returned after at least one draw was discarded, the last draw's
\* leading byte being zero and its value N - 1.
C1_Witness ==
    /\ gk.pc = "returned"
    /\ gk.draws = 2
    /\ BigEndian(gk.bytes) = N - 1

\* C5: for k in [1, N-1], as hex string or integer, getPublicKey(k) is the
\* compressed encoding of k*G: 02 for an even y and 03 for an odd y, then x
\* as big-endian bytes; getPublicKey(1) is 02 followed by Gx.
C5_CompressedPoint ==
    (call.op = "getPublicKey" /\ toBigInt(call.privateKey) \in 1 .. (N - 1)) =>
        LET k == toBigInt(call.privateKey)
            pt == RepeatedAdd(k, G)
            xHex == SubSeq(call.ret, 3, Len(call.ret))
        IN  /\ pt # Infinity
            /\ Len(call.ret) = 2 * (ScalarLen + 1)
            /\ SubSeq(call.ret, 1, 2) = (IF pt[2] % 2 = 0 THEN <<"0", "2">> ELSE <<"0", "3">>)
            /\ \A i \in 1 .. Len(xHex) : \E d \in 1 .. 16 : xHex[i] = HexDigits[d]
            /\ BigEndian(hexToBytes(xHex)) = pt[1]
            /\ (k = 1 => /\ SubSeq(call.ret, 1, 2) = <<"0", "2">>
                         /\ BigEndian(hexToBytes(xHex)) = Gx)

\* getPublicKey of a hex string whose point has an odd y.
C5_Witness ==
    /\ call.op = "getPublicKey"
    /\ call.privateKey.type = "string"
    /\ toBigInt(call.privateKey) \in 2 .. (N - 1)
    /\ SubSeq(call.ret, 1, 2) = <<"0", "3">>

\* C6: pointMultiply(k, p) is the sum of k copies of p by repeated pointAdd
\* from the point at infinity; with k = 0 it is the point at infinity.
C6_MultiplyIsRepeatedAdd ==
    pm.pc = "returned" =>
        /\ pm.result = RepeatedAdd(pm.k0, pm.p)
        /\ (pm.k0 = 0 => pm.result = Infinity)

\* A multiplication by more than the group order with a finite result.
C6_Witness ==
    /\ pm.pc = "returned"
    /\ pm.k0 > N + 1
    /\ pm.result # Infinity
    /\ pm.p # G

\* C7: pointMultiply(N, G) is the point at infinity, and the last addition
\* of the loop adds two inverse points.
C7_OrderOfG ==
    (pm.pc = "returned" /\ pm.k0 = N /\ pm.p = G) =>
        /\ pm.result = Infinity
        /\ Len(pm.sum) = 2
        /\ InversePoints(pm.sum[1], pm.sum[2])

C7_Witness ==
    /\ pm.pc = "returned"
    /\ pm.k0 = N
    /\ pm.p = G
    /\ pm.result = Infinity

\* C8: pointAdd(A, B) = pointAdd(B, A) for all A and B on the curve or at
\* infinity.
C8_AddCommutes ==
    call.op = "pointAdd" => call.ret = pointAdd(call.p2, call.p1)

\* A chord addition of two distinct finite points.
C8_Witness ==
    /\ call.op = "pointAdd"
    /\ call.p1 # Infinity
    /\ call.p2 # Infinity
    /\ call.p1[1] # call.p2[1]
    /\ call.ret # Infinity

\* C9: two points with the same x and different y add to the point at
\* infinity; every other pair of distinct finite points adds to the finite
\* point given by the chord slope s = (y2 - y1) / (x2 - x1).
C9_InverseOrChord ==
    (call.op = "pointAdd" /\ call.p1 # Infinity /\ call.p2 # Infinity
        /\ call.p1 # call.p2) =>
        LET x1 == call.p1[1]
            y1 == call.p1[2]
            x2 == call.p2[1]
            y2 == call.p2[2]
        IN  IF x1 = x2 THEN call.ret = Infinity
            ELSE /\ call.ret # Infinity
                 /\ call.ret \in (0 .. P - 1) \X (0 .. P - 1)
                 /\ \E s \in 0 .. (P - 1) :
                      /\ Congruent(s * (x2 - x1), y2 - y1, P)
                      /\ Congruent(call.ret[1], s * s - x1 - x2, P)
                      /\ Congruent(call.ret[2], s * (x1 - call.ret[1]) - y1, P)

\* An addition of two inverse points.
C9_Witness ==
    /\ call.op = "pointAdd"
    /\ InversePoints(call.p1, call.p2)
    /\ call.ret = Infinity

\* C10: the sum of two points that are on the curve or at infinity is on the
\* curve or at infinity, doubling included, and so is every result and
\* addend inside pointMultiply.
C10_Closure ==
    /\ call.op = "pointAdd" => OnCurve(call.ret)
    /\ pm.pc # "idle" => OnCurve(pm.result) /\ OnCurve(pm.addend)

\* A doubling by pointAdd with a finite result.
C10_Witness ==
    /\ call.op = "pointAdd"
    /\ call.p1 # Infinity
    /\ call.p1 = call.p2
    /\ call.ret # Infinity
    /\ call.ret # call.p1

\* The scalars r and s read back from a returned signature.
SigR(sig) == BigEndian(hexToBytes(SubSeq(sig, 1, 2 * ScalarLen)))

SigS(sig) == BigEndian(hexToBytes(SubSeq(sig, 2 * ScalarLen + 1, Len(sig))))

\* C3: a returned signature (r, s) passes the ECDSA check: with
\* w = s^-1 mod N, u1 = z*w mod N, u2 = r*w mod N, the point
\* u1*G + u2*(d*G) is finite and its x mod N equals r.
C3_SignatureVerifies ==
    sg.pc = "returned" =>
        LET r == SigR(sg.res.sig)
            s == SigS(sg.res.sig)
            d == sg.privKey
            z == sg.msgHash
        IN  /\ \E w \in 1 .. (N - 1) : (s * w) % N = 1
            /\ LET w == CHOOSE w \in 1 .. (N - 1) : (s * w) % N = 1
                   u1 == (z * w) % N
                   u2 == (r * w) % N
                   X == pointAdd(pointMultiply(u1, G),
                                 pointMultiply(u2, pointMultiply(d, G)))
               IN  /\ X # Infinity
                   /\ X[1] % N = r

\* A signature of a digest that is not below N, by a nonce other than 1.
C3_Witness ==
    /\ sg.pc = "returned"
    /\ sg.msgHash >= N
    /\ sg.k > 1
    /\ sg.privKey > 1

\* C4: sign returns r and s that are both in [1, N-1], or raises an error
\* (r = 0 or s = 0) and returns no signature.
C4_NoZeroComponent ==
    /\ sg.pc = "returned" =>
         /\ Len(sg.res.sig) = 4 * ScalarLen
         /\ SigR(sg.res.sig) \in 1 .. (N - 1)
         /\ SigS(sg.res.sig) \in 1 .. (N - 1)
    /\ sg.pc = "threw" =>
         /\ sg.res.error \in {"Invalid r", "Invalid s"}
         /\ "sig" \notin DOMAIN sg.res
         /\ LET R == RepeatedAdd(sg.k, G)
            IN  \/ R[1] % N = 0
                \/ \A kInv \in 1 .. (N - 1) :
                     (kInv * sg.k) % N = 1 =>
                        ((sg.msgHash + (R[1] % N) * sg.privKey) * kInv) % N = 0

\* A signing attempt rejected for s = 0.
C4_Witness ==
    /\ sg.pc = "threw"
    /\ sg.res.error = "Invalid s"

\* The hex string has no upper-case digit.
LowerCase(hex) == \A i \in 1 .. Len(hex) : \E d \in 1 .. 16 : hex[i] = HexDigits[d]

\* hex is the hex of a key: 64 or 66 hex digits.
KeyHex(hex) ==
    Len(hex) \in {64, 66} /\ \A i \in 1 .. Len(hex) : digitValue(hex[i]) >= 0

Decoded == cd.pc \in {"decodedPub", "decodedPriv"} /\ KeyHex(cd.hex)

\* C2 as stated: decoding the encoding of any key of 64 or 66 hex characters
\* returns the same string.
C2_RoundTripAnyHex ==
    Decoded => cd.dec.ok /\ cd.dec.hex = cd.hex

\* C2, amended: decoding the encoding of a key of 64 or 66 hex characters
\* returns the same bytes, as lower-case hex: the same string when the key
\* was given in lower case.
C2_RoundTripLowerCase ==
    Decoded =>
        /\ cd.dec.ok
        /\ Len(cd.dec.hex) = Len(cd.hex)
        /\ LowerCase(cd.dec.hex)
        /\ \A i \in 1 .. Len(cd.hex) : digitValue(cd.dec.hex[i]) = digitValue(cd.hex[i])
        /\ (LowerCase(cd.hex) => cd.dec.hex = cd.hex)

\* The compressed base point, 02 and Gx, encoded and decoded as public key.
C2_Witness ==
    /\ cd.pc = "decodedPub"
    /\ cd.hex = <<"0", "2">> \o Lower(SecpGx)
    /\ cd.dec.ok
    /\ cd.dec.hex = cd.hex

\* a and m have no common divisor above 1.
Coprime(a, m) == \A d \in 2 .. m : ~(a % d = 0 /\ m % d = 0)

\* C11 as stated: for every m >= 2 and every integer a, modInverse(a, m) is
\* in [0, m) and is the inverse of a modulo m, and is 0 when a = 0 (mod m).
C11_InverseForEveryModulus ==
    call.op = "modInverse" =>
        /\ call.ret \in 0 .. (call.m - 1)
        /\ IF call.a % call.m = 0 THEN call.ret = 0
           ELSE (call.a * call.ret) % call.m = 1

\* C11, amended: modInverse(a, m) is in [0, m); it is the inverse of a modulo
\* m when a and m are coprime, and 0 when a = 0 (mod m).
C11_InverseWhenCoprime ==
    call.op = "modInverse" =>
        /\ call.ret \in 0 .. (call.m - 1)
        /\ (call.a % call.m = 0 => call.ret = 0)
        /\ (Coprime(call.a, call.m) => (call.a * call.ret) % call.m = 1)

\* The inverse of a negative number modulo a composite modulus.
C11_Witness ==
    /\ call.op = "modInverse"
    /\ call.a < -call.m
    /\ call.m = 9
    /\ call.ret > 1
    /\ (call.a * call.ret) % call.m = 1

\* C12: the groups of convertBits(b, 8, 5, true), converted back with
\* convertBits(., 5, 8, false), give exactly the bytes b and no error.
C12_BitsRoundTrip ==
    call.op = "convertBack" => call.ret.ok /\ call.ret.ret = call.bytes

\* 33 bytes, more than the 32-bit accumulator holds, come back.
C12_Witness ==
    /\ call.op = "convertBack"
    /\ Len(call.bytes) = 33
    /\ \E i \in 1 .. 33 : call.bytes[i] = 255
    /\ call.ret.ok
    /\ call.ret.ret = call.bytes

\* Bit i (1 is the first) of the input read as one string of bits, each value
\* written with `width' bits, the most significant first.
InputBit(data, width, i) ==
    (data[((i - 1) \div width) + 1] \div Pow2(width - 1 - ((i - 1) % width))) % 2

\* The value of bits from + 1 .. from + n of the input, as the leading bits
\* of a group of toBits bits whose other bits are zero.
RECURSIVE GroupOf(_, _, _, _, _)
GroupOf(data, width, from, n, toBits) ==
    IF n = 0 THEN 0
    ELSE GroupOf(data, width, from, n - 1, toBits)
         + InputBit(data, width, from + n) * Pow2(toBits - n)

\* The complete groups of toBits bits of the input.
FullGroups(data, width, toBits) ==
    [k \in 1 .. ((width * Len(data)) \div toBits) |->
        GroupOf(data, width, (k - 1) * toBits, toBits, toBits)]

LeftOver(data, width, toBits) == (width * Len(data)) % toBits

LeftOverGroup(data, width, toBits) ==
    GroupOf(data, width, width * Len(data) - LeftOver(data, width, toBits),
            LeftOver(data, width, toBits), toBits)

\* Every value data[i] + wraps[i] * 2^32 is in [0, 2^width).
InRange(data, wraps, width) ==
    \A i \in 1 .. Len(data) : wraps[i] = 0 /\ data[i] \in 0 .. (Pow2(width) - 1)

ConvertCall == call.op \in {"convertBits", "convertBack"}

Converted == ConvertCall /\ InRange(call.data, call.wraps, call.fromBits)

\* C15: with pad = false, left-over bits that are not all zero, or fromBits
\* or more of them, raise an error, and a result holds every complete group
\* and leaves only zero bits out; with pad = true the result is the complete
\* groups and, exactly when bits are left over, one more group holding them
\* shifted left and zero-padded.
C15_Padding ==
    Converted =>
        LET left == LeftOver(call.data, call.fromBits, call.toBits)
            last == LeftOverGroup(call.data, call.fromBits, call.toBits)
            full == FullGroups(call.data, call.fromBits, call.toBits)
        IN  IF call.pad
            THEN /\ call.ret.ok
                 /\ call.ret.ret = IF left > 0 THEN Append(full, last) ELSE full
            ELSE /\ (left >= call.fromBits \/ last # 0) => ~call.ret.ok
                 /\ call.ret.ok => call.ret.ret = full /\ last = 0

\* Non-zero left-over bits are refused without padding.
C15_Witness ==
    /\ Converted
    /\ ~call.pad
    /\ call.fromBits = 8 /\ call.toBits = 5
    /\ LeftOver(call.data, 8, 5) \in 1 .. 4
    /\ LeftOverGroup(call.data, 8, 5) # 0
    /\ ~call.ret.ok
    /\ call.ret.error = "Invalid padding"

BsDecoded == cd.pc = "decoded"

\* C13: an encoded string in which one character after the separator was
\* replaced by another symbol of the alphabet, or one character of the prefix
\* by another character, makes decode raise an error.
C13_OneCharacterDetected ==
    BsDecoded /\ cd.edit \in {"symbol", "prefix"} => ~cd.dec.ok

\* A replaced checksum-protected symbol of a key is caught by the checksum.
C13_Witness ==
    /\ BsDecoded
    /\ cd.edit = "symbol"
    /\ Len(cd.data) = 52
    /\ ~cd.dec.ok
    /\ cd.dec.error = "Invalid bech32 checksum"

\* The 1-based place of the last "1" of str, 0 when there is none.
LastOne(str) ==
    IF \A i \in 1 .. Len(str) : str[i] # "1" THEN 0
    ELSE CHOOSE i \in 1 .. Len(str) :
            str[i] = "1" /\ \A j \in 1 .. Len(str) : str[j] = "1" => j <= i

InAlphabet(c) == \E i \in 1 .. 32 : charset[i] = c

\* The symbols written after place pos of str.
SymbolsAfter(str, pos) ==
    [i \in 1 .. (Len(str) - pos) |-> CHOOSE v \in 0 .. 31 : charset[v + 1] = str[pos + i]]

\* str is well formed: a non-empty prefix, a "1", six or more characters of
\* the alphabet, and a polymod of 1.
WellFormed(str) ==
    LET pos == LastOne(str)
    IN  /\ pos > 1
        /\ Len(str) - pos >= 6
        /\ \A i \in (pos + 1) .. Len(str) : InAlphabet(str[i])
        /\ polymod(hrpExpand(SubSeq(str, 1, pos - 1)) \o SymbolsAfter(str, pos)) = 1

\* C14: decode returns a result only for a well-formed string, and then the
\* prefix is the text before the last "1" and the payload every symbol but
\* the last six.
C14_DecodeWellFormedOnly ==
    BsDecoded =>
        /\ ~WellFormed(cd.str) => ~cd.dec.ok
        /\ cd.dec.ok =>
             LET pos == LastOne(cd.str)
                 symbols == SymbolsAfter(cd.str, pos)
             IN  /\ cd.dec.hrp = SubSeq(cd.str, 1, pos - 1)
                 /\ cd.dec.data = SubSeq(symbols, 1, Len(symbols) - 6)

\* A string with a valid checksum and an empty prefix is refused.
C14_Witness ==
    /\ BsDecoded
    /\ cd.hrp = <<>> /\ cd.edit = "none"
    /\ cd.str[1] = "1"
    /\ verifyChecksum(<<>>, SymbolsAfter(cd.str, 1))
    /\ ~cd.dec.ok

\* C16: the symbols and checksum written under "npub" fail the checksum
\* under "nsec", and those written under "nsec" fail it under "npub": decode
\* refuses a string whose prefix was swapped, with a checksum error.
C16_PrefixBound ==
    BsDecoded /\ cd.edit = "swap" =>
        ~cd.dec.ok /\ cd.dec.error = "Invalid bech32 checksum"

\* The payload of a key written under "nsec" and read under "npub".
C16_Witness ==
    /\ BsDecoded
    /\ cd.edit = "swap"
    /\ cd.hrp = Nsec
    /\ SubSeq(cd.str, 1, 5) = Npub \o <<"1">>
    /\ Len(cd.data) = 52
    /\ ~cd.dec.ok

Malformed(hex) == Len(hex) % 2 = 1 \/ \E i \in 1 .. Len(hex) : digitValue(hex[i]) < 0

\* C17: encodePubkey and encodePrivkey raise an error, and return no string,
\* for a hex string of odd length or with a character that is no hex digit.
C17_MalformedHexRaises ==
    cd.pc \in {"encodedPub", "encodedPriv"} /\ Malformed(cd.hex) => ~cd.enc.ok

\* C18: getPublicKey never returns the zero bytes that encodePoint writes for
\* the point at infinity.
C18_NoZeroKey ==
    call.op = "getPublicKey" => \E i \in 1 .. Len(call.ret) : call.ret[i] # "0"

\* C19 (determinism of getPublicKey and generateK) has no formula: the
\* functions of the core are operators of their arguments here, as the code
\* keeps no state between calls, and an operator equals itself.

\* C20: decodePrivkey raises an error for the string encodePubkey wrote, and
\* decodePubkey for the string encodePrivkey wrote.
C20_OwnPrefixOnly ==
    cd.pc \in {"crossPub", "crossPriv"} /\ KeyHex(cd.hex) => ~cd.dec.ok

\* C30: convertBits of values in [0, 2^fromBits) gives groups in
\* [0, 2^toBits) that are the regrouping of the input's bit string (with the
\* padded last group when pad is true), and a value outside [0, 2^fromBits)
\* raises an error.
C30_ExactRegrouping ==
    ConvertCall =>
        IF InRange(call.data, call.wraps, call.fromBits)
        THEN call.ret.ok =>
               LET left == LeftOver(call.data, call.fromBits, call.toBits)
                   last == LeftOverGroup(call.data, call.fromBits, call.toBits)
                   full == FullGroups(call.data, call.fromBits, call.toBits)
               IN  /\ \A i \in 1 .. Len(call.ret.ret) :
                        call.ret.ret[i] \in 0 .. (Pow2(call.toBits) - 1)
                   /\ call.ret.ret =
                        IF call.pad /\ left > 0 THEN Append(full, last) ELSE full
        ELSE ~call.ret.ok

\* C21: whenever app.privateKey and app.publicKey are both set, publicKey is
\* getPublicKey(privateKey).
C21_KeyPairConsistent ==
    (app.privateKey # <<>> /\ app.publicKey # <<>>) =>
        /\ ~BigIntSyntaxError(app.privateKey)
        /\ app.publicKey = getPublicKey([type |-> "string", hex |-> app.privateKey])

\* C22: a saveSettings that stops with the alert of an invalid key or of a
\* missing relay leaves the keys, the relay list, the stored item and the
\* relay connections as they were.
C22_RejectedSaveChangesNothing ==
    [][(app'.last.op = "saveSettings" /\ app'.last.alert # "Settings saved!") =>
          /\ app'.privateKey = app.privateKey
          /\ app'.publicKey = app.publicKey
          /\ app'.relayUrls = app.relayUrls
          /\ storage' = storage
          /\ nostr'.sockets = nostr.sockets /\ nostr'.relays = nostr.relays]_vars

\* The REQ of subscription s is due on socket i: the subscription exists and
\* the socket is open.
ReqDue(s, i) ==
    /\ s \in nostr.subscriptions
    /\ i \in SocketIds
    /\ nostr.sockets[i].readyState = "OPEN"

ReqSent(s, i) == [type |-> "REQ", subId |-> s] \in nostr.sockets[i].sent

\* C23: for every subscription and every socket that is open while the
\* subscription exists, the REQ of the subscription is eventually sent on the
\* socket (unless the subscription ends or the socket closes before).
C23_RequestReachesRelay ==
    \A s \in 1 .. MaxSubs, i \in 1 .. MaxSockets :
        ReqDue(s, i) ~> (~ReqDue(s, i) \/ ReqSent(s, i))

\* C24: the onEvent of a subscription that was unsubscribed is not invoked:
\* every onEvent an EVENT message invokes is that of a subscription that
\* still exists.
C24_NoCallAfterUnsubscribe ==
    \A k \in 1 .. Len(nostr.called) : nostr.called[k] \in nostr.subscriptions

\* The most recently created socket for url, 0 when there is none.
LatestSocket(url) ==
    LET made == {i \in SocketIds : nostr.sockets[i].url = url}
    IN  IF made = {} THEN 0 ELSE CHOOSE i \in made : \A j \in made : j <= i

\* C25: whenever the most recently created socket for a URL is open,
\* Nostr.relays[url] is that socket and getConnectedRelays reports the URL.
C25_RelayMapTracksOpen ==
    \A url \in Urls :
        isOpen(nostr, LatestSocket(url)) =>
            /\ nostr.relays[url] = LatestSocket(url)
            /\ url \in getConnectedRelays(nostr)

\* The relays of app.relayUrls.
Configured == {app.relayUrls[k] : k \in 1 .. Len(app.relayUrls)}

\* C26: after saveSettings has saved a relay list and reconnected, the relays
\* getConnectedRelays reports and the relays publish sends an EVENT to are
\* in app.relayUrls.
C26_OnlyConfiguredRelays ==
    app.last = Last("saveSettings", "Settings saved!") =>
        /\ getConnectedRelays(nostr) \subseteq Configured
        /\ nostr.results \subseteq Configured

\* C27: while currentSearch is a query set by search(), the panel shows the
\* loading state or the article (or the not-found page) of that query.
C27_CurrentViewOnly ==
    view.currentSearch \in Titles =>
        \/ view.panel.kind = "loading"
        \/ /\ view.panel.kind \in {"article", "notfound"}
           /\ view.panel.of = view.currentSearch

\* C28: displayCategoryResults raises no error.
C28_CategoryResultsNoError == view.error = "none"

NoDuplicateIds(list) ==
    \A i, j \in 1 .. Len(list) : i < j => list[i].id # list[j].id

NewestFirst(list) ==
    \A i, j \in 1 .. Len(list) : i < j => list[i].created >= list[j].created

\* C29: every list of app.articles holds no two versions with the same event
\* id and is ordered by creation time, newest first.
C29_DistinctAndNewestFirst ==
    \A title \in DOMAIN view.articles :
        NoDuplicateIds(view.articles[title]) /\ NewestFirst(view.articles[title])

\* An event was handed to two subscriptions in one message, and the list of
\* its title holds three versions of two creation times.
C29_Witness ==
    /\ Len(nostr.called) >= 2
    /\ "T1" \in DOMAIN view.articles
    /\ Len(view.articles["T1"]) = 3
    /\ view.articles["T1"][1].created > view.articles["T1"][3].created

=============================================================================
